---- MODULE Spec2Model ----
(***************************************************************************)
(* Latin analyzer microservice (services/latin-analyzer/app).              *)
(*                                                                         *)
(* State: the single module-level CLTKService instance (cltk_service.py    *)
(* line 143) and, as observations of the environment, the number of times  *)
(* the library's NLP constructor ran, the last request, what the library's *)
(* analyze call did during it, and the answer the caller got.              *)
(*                                                                         *)
(* The FastAPI handlers are `async def` bodies without any await, so each  *)
(* runs to completion on the event loop: one action per handler.           *)
(*                                                                         *)
(* The CLTK library is outside the repository.  Its constructor either     *)
(* returns a pipeline or raises an Exception; its analyze call either      *)
(* returns a document (a sequence of word objects) or raises an Exception. *)
(* Both are nondeterministic choices of the environment.                   *)
(***************************************************************************)
EXTENDS Integers, Sequences, FiniteSets, TLC

\* Longest document the library returns in the model.
MaxWords == 2

(***************************************************************************)
(* Python values.  TLC cannot compare a string with a record, so Python's  *)
(* None has one representation among strings and one among objects.        *)
(* Attribute values are passed through by the code unchanged, so they are  *)
(* opaque strings (the governor, a token index, included).                 *)
(***************************************************************************)
None == "None"
NoneObj == [py_none |-> TRUE]
NLPObject == "NLP"

\* hasattr(obj, name) / getattr(obj, name, None): a word or feature bundle is
\* a function from the names of the attributes it has to their values.
hasattr(obj, name) == name \in DOMAIN obj
getattr(obj, name) == IF name \in DOMAIN obj THEN obj[name] ELSE None

\* A feature bundle without any feature (falsy, like an empty dict).
EmptyBundle == << >>
\* Python truthiness of a `features` value: None and empty are falsy.
Truthy(features) == features # NoneObj /\ features # EmptyBundle

AttributeErrorMsg == "object has no attribute 'string'"
ValidationErrorMsg == "1 validation error for WordAnalysis"
NotInitializedMsg == "CLTK is not initialized"
NotReadyDetail == "CLTK service is not ready. Please try again later."

(***************************************************************************)
(* models.py                                                               *)
(***************************************************************************)
MorphologyData(case, number, gender, tense, voice, mood, person, degree) ==
    [case |-> case, number |-> number, gender |-> gender, tense |-> tense,
     voice |-> voice, mood |-> mood, person |-> person, degree |-> degree]

WordAnalysis(form, lemma, pos, morphology, dependency, index) ==
    [form |-> form, lemma |-> lemma, pos |-> pos, morphology |-> morphology,
     dependency |-> dependency, index |-> index]

\* `form: str` and `index: int` are required fields: pydantic rejects None.
WordAnalysisValid(form) == form # None

AnalyzeResponse(success, words, raw_text, error) ==
    [kind |-> "AnalyzeResponse", status_code |-> 200, success |-> success,
     words |-> words, raw_text |-> raw_text, error |-> error]

HealthResponse(status, cltk_ready, version) ==
    [kind |-> "HealthResponse", status_code |-> 200, status |-> status,
     cltk_ready |-> cltk_ready, version |-> version]

HTTPException(status_code, detail) ==
    [kind |-> "HTTPException", status_code |-> status_code, detail |-> detail]

\* An exception that leaves a handler or a method uncaught.
Uncaught(msg) == [kind |-> "Exception", msg |-> msg]

(***************************************************************************)
(* cltk_service.py: CLTKService                                            *)
(***************************************************************************)
\* __init__: nothing is loaded, nothing was attempted.
NewService ==
    [nlp |-> None, initialization_attempted |-> FALSE,
     initialization_error |-> None, NLP_calls |-> 0]

\* Outcomes of NLP(language="lat", suppress_banner=True).
InitErrors == {"model download failed", ""}
CtorOutcomes ==
    {[raised |-> FALSE, msg |-> None]} \cup {[raised |-> TRUE, msg |-> m] : m \in InitErrors}

\* Mutant: the guard forgets the attempted flag, so a failed load is retried.
ensure_initialized_retry(self, ctor) ==
    IF self.nlp # None
    THEN [self |-> self, propagated |-> FALSE, msg |-> None]
    ELSE [self |-> [nlp |-> IF ctor.raised THEN None ELSE NLPObject,
                    initialization_attempted |-> TRUE,
                    initialization_error |-> IF ctor.raised THEN ctor.msg
                                            ELSE self.initialization_error,
                    NLP_calls |-> self.NLP_calls + 1],
          propagated |-> FALSE, msg |-> None]

\* _ensure_initialized: the service after the call, and whether an exception
\* left the method (`except Exception` catches whatever the constructor raises).
ensure_initialized(self, ctor) ==
    IF self.nlp # None \/ self.initialization_attempted
    THEN [self |-> self, propagated |-> FALSE, msg |-> None]
    ELSE LET attempted == [self EXCEPT !.initialization_attempted = TRUE,
                                       !.NLP_calls = @ + 1]
         IN  IF ~ctor.raised
             THEN [self |-> [attempted EXCEPT !.nlp = NLPObject],
                   propagated |-> FALSE, msg |-> None]
             ELSE [self |-> [attempted EXCEPT !.initialization_error = ctor.msg,
                                              !.nlp = None],
                   propagated |-> FALSE, msg |-> None]

\* Mutant: readiness reported from the attempted flag instead of the pipeline.
is_ready_attempted(self, ctor) ==
    LET e == ensure_initialized(self, ctor)
    IN  [self |-> e.self, propagated |-> e.propagated, msg |-> e.msg,
         value |-> e.self.initialization_attempted]

\* is_ready: triggers the lazy initialization, then `self.nlp is not None`.
is_ready(self, ctor) ==
    LET e == ensure_initialized(self, ctor)
    IN  [self |-> e.self, propagated |-> e.propagated, msg |-> e.msg,
         value |-> e.self.nlp # None]

\* Mutant: the falsy-features early return is missing.
parse_morphology_no_guard(features) ==
    MorphologyData(getattr(features, "case"), getattr(features, "number"),
                   getattr(features, "gender"), getattr(features, "tense"),
                   getattr(features, "voice"), getattr(features, "mood"),
                   getattr(features, "person"), getattr(features, "degree"))

\* _parse_morphology
parse_morphology(features) ==
    IF ~Truthy(features)
    THEN NoneObj
    ELSE MorphologyData(getattr(features, "case"), getattr(features, "number"),
                        getattr(features, "gender"), getattr(features, "tense"),
                        getattr(features, "voice"), getattr(features, "mood"),
                        getattr(features, "person"), getattr(features, "degree"))

\* Mutant: the index counts from 1 instead of 0.
word_analysis_from_one(word, i, include_morphology, include_dependencies) ==
    WordAnalysis(word.string, getattr(word, "lemma"), getattr(word, "upos"),
                 IF include_morphology /\ hasattr(word, "features")
                 THEN parse_morphology(word.features) ELSE NoneObj,
                 IF include_dependencies /\ hasattr(word, "dependency_relation")
                 THEN [relation |-> word.dependency_relation,
                       governor |-> getattr(word, "governor")]
                 ELSE NoneObj,
                 i + 1)

\* The body of the loop over doc.words for the word at position i (from 0):
\* the keyword arguments of the WordAnalysis it builds.
word_analysis(word, i, include_morphology, include_dependencies) ==
    LET lemma == IF hasattr(word, "lemma") THEN word.lemma ELSE None
        pos == IF hasattr(word, "upos") THEN word.upos ELSE None
        morphology_data ==
            IF include_morphology /\ hasattr(word, "features")
            THEN parse_morphology(word.features)
            ELSE NoneObj
        dependency_data ==
            IF include_dependencies /\ hasattr(word, "dependency_relation")
            THEN [relation |-> word.dependency_relation,
                  governor |-> IF hasattr(word, "governor") THEN word.governor
                               ELSE None]
            ELSE NoneObj
    IN  WordAnalysis(word.string, lemma, pos, morphology_data, dependency_data, i)

\* for i, word in enumerate(doc.words): ... words.append(WordAnalysis(...))
\* k is the 1-based position in the sequence, so i = k - 1.  Reading
\* word.string of a word without it raises AttributeError; a None form fails
\* WordAnalysis validation.
RECURSIVE analyze_loop(_, _, _, _, _)
analyze_loop(doc, k, words, include_morphology, include_dependencies) ==
    IF k > Len(doc)
    THEN [raised |-> FALSE, msg |-> None, words |-> words]
    ELSE IF ~hasattr(doc[k], "string")
    THEN [raised |-> TRUE, msg |-> AttributeErrorMsg, words |-> << >>]
    ELSE IF ~WordAnalysisValid(doc[k].string)
    THEN [raised |-> TRUE, msg |-> ValidationErrorMsg, words |-> << >>]
    ELSE analyze_loop(doc, k + 1,
                      Append(words, word_analysis(doc[k], k - 1, include_morphology,
                                                  include_dependencies)),
                      include_morphology, include_dependencies)

\* CLTKService.analyze_text.  lib is what self.nlp.analyze(text=text) does if
\* it is called; lib_invoked and lib_self record whether it was called and on
\* which pipeline object.
analyze_text(self, text, include_morphology, include_dependencies, lib) ==
    IF self.nlp = None
    THEN [raised |-> TRUE, msg |-> NotInitializedMsg, words |-> << >>,
          lib_invoked |-> FALSE, lib_self |-> None]
    ELSE IF lib.raised
    THEN [raised |-> TRUE, msg |-> lib.msg, words |-> << >>,
          lib_invoked |-> TRUE, lib_self |-> self.nlp]
    ELSE LET r == analyze_loop(lib.doc, 1, << >>, include_morphology,
                               include_dependencies)
         IN  [raised |-> r.raised, msg |-> r.msg, words |-> r.words,
              lib_invoked |-> TRUE, lib_self |-> self.nlp]

(***************************************************************************)
(* main.py: the handlers                                                   *)
(***************************************************************************)
\* GET /health
health_check(self, ctor) ==
    LET r == is_ready(self, ctor)
    IN  [self |-> r.self,
         response |-> IF r.propagated THEN Uncaught(r.msg)
                      ELSE HealthResponse("healthy", r.value, "1.0.0")]

\* Mutant: the readiness check before the analysis is missing.
analyze_text_handler_no_check(self, request, ctor, lib) ==
    LET a == analyze_text(self, request.text, request.include_morphology,
                          request.include_dependencies, lib)
    IN  [self |-> self, lib_invoked |-> a.lib_invoked, lib_self |-> a.lib_self,
         response |-> IF a.raised
                      THEN AnalyzeResponse(FALSE, << >>, request.text, a.msg)
                      ELSE AnalyzeResponse(TRUE, a.words, request.text, None)]

\* Mutant: a failed analysis is answered with an HTTP error, as the
\* handler's docstring has it, instead of a success=false body.
analyze_text_handler_http_error(self, request, ctor, lib) ==
    LET r == is_ready(self, ctor)
        a == analyze_text(r.self, request.text, request.include_morphology,
                          request.include_dependencies, lib)
    IN  IF r.propagated
        THEN [self |-> r.self, lib_invoked |-> FALSE, lib_self |-> None,
              response |-> Uncaught(r.msg)]
        ELSE IF ~r.value
        THEN [self |-> r.self, lib_invoked |-> FALSE, lib_self |-> None,
              response |-> HTTPException(503, NotReadyDetail)]
        ELSE [self |-> r.self, lib_invoked |-> a.lib_invoked, lib_self |-> a.lib_self,
              response |-> IF a.raised
                           THEN HTTPException(500, a.msg)
                           ELSE AnalyzeResponse(TRUE, a.words, request.text, None)]

\* POST /analyze
analyze_text_handler(self, request, ctor, lib) ==
    LET r == is_ready(self, ctor)
        a == analyze_text(r.self, request.text, request.include_morphology,
                          request.include_dependencies, lib)
    IN  IF r.propagated
        THEN [self |-> r.self, lib_invoked |-> FALSE, lib_self |-> None,
              response |-> Uncaught(r.msg)]
        ELSE IF ~r.value
        THEN [self |-> r.self, lib_invoked |-> FALSE, lib_self |-> None,
              response |-> HTTPException(503, NotReadyDetail)]
        ELSE [self |-> r.self, lib_invoked |-> a.lib_invoked, lib_self |-> a.lib_self,
              response |-> IF a.raised
                           THEN AnalyzeResponse(FALSE, << >>, request.text, a.msg)
                           ELSE AnalyzeResponse(TRUE, a.words, request.text, None)]

(***************************************************************************)
(* Inputs                                                                  *)
(***************************************************************************)
SeqsUpTo(S, n) == UNION {[1..m -> S] : m \in 0..n}

\* An attribute that is absent, or present with one of vals.
Opt(name, vals) == {EmptyBundle} \cup {name :> v : v \in vals}

NominalBundle == [case |-> "nominative", number |-> "plural", gender |-> "neuter"]
VerbalBundle ==
    [number |-> "singular", tense |-> "present", voice |-> "active",
     mood |-> "indicative", person |-> "first", degree |-> "positive"]

\* Words that differ in their string, lemma and upos attributes; the last two
\* make the field mapping raise (string None, string missing).
LexWords ==
    {("string" :> s) @@ l @@ u :
        s \in {"arma", "virum"}, l \in Opt("lemma", {None, "arma"}),
        u \in Opt("upos", {"NOUN"})}
    \cup {[string |-> None, lemma |-> "cano"], [lemma |-> "cano"]}

\* Words that differ in their features, dependency_relation and governor.
DepAttrs ==
    {EmptyBundle, [governor |-> "0"], [dependency_relation |-> None],
     [dependency_relation |-> "nsubj"],
     [dependency_relation |-> "nsubj", governor |-> "0"]}
SectionWords ==
    {[string |-> "cano", lemma |-> "cano", upos |-> "VERB"] @@ f @@ d :
        f \in Opt("features", {NoneObj, EmptyBundle, NominalBundle, VerbalBundle}),
        d \in DepAttrs}
Words == LexWords \cup SectionWords

\* The words the library returns to the HTTP handlers: one with every
\* attribute, one with the string alone, one whose form fails validation.
ServiceWords ==
    {[string |-> "arma", lemma |-> "arma", upos |-> "NOUN", features |-> NominalBundle,
      dependency_relation |-> "nsubj", governor |-> "0"],
     [string |-> "virum"],
     [string |-> None]}

AnalyzeErrors == {"parser crashed", ""}
Returns(doc) == [raised |-> FALSE, msg |-> None, doc |-> doc]
Raises(msg) == [raised |-> TRUE, msg |-> msg, doc |-> << >>]
NoLib == Returns(<< >>)
LibOutcomes(W) ==
    {Returns(d) : d \in SeqsUpTo(W, MaxWords)} \cup {Raises(m) : m \in AnalyzeErrors}

Texts == {"arma virumque cano", ""}
AnalyzeRequests ==
    {[endpoint |-> "/analyze", text |-> t, include_morphology |-> im,
      include_dependencies |-> id] : t \in Texts, im \in BOOLEAN, id \in BOOLEAN}
NoRequest == [endpoint |-> "none"]
NoResponse == [kind |-> "none"]

(***************************************************************************)
(* State                                                                   *)
(***************************************************************************)
VARIABLES
    nlp,                        \* self.nlp
    initialization_attempted,   \* self._initialization_attempted
    initialization_error,       \* self._initialization_error
    NLP_calls,                  \* how often NLP(...) was constructed
    request,                    \* the last request (or direct call)
    lib,                        \* what self.nlp.analyze does for that request
    lib_invoked,                \* whether the request invoked self.nlp.analyze
    lib_self,                   \* the pipeline object it was invoked on
    response                    \* what the caller got back

vars == <<nlp, initialization_attempted, initialization_error, NLP_calls,
          request, lib, lib_invoked, lib_self, response>>

cltk_service ==
    [nlp |-> nlp, initialization_attempted |-> initialization_attempted,
     initialization_error |-> initialization_error, NLP_calls |-> NLP_calls]

SetService(self) ==
    /\ nlp' = self.nlp
    /\ initialization_attempted' = self.initialization_attempted
    /\ initialization_error' = self.initialization_error
    /\ NLP_calls' = self.NLP_calls

\* cltk_service = CLTKService() at import; no request yet.
Init ==
    /\ nlp = NewService.nlp
    /\ initialization_attempted = NewService.initialization_attempted
    /\ initialization_error = NewService.initialization_error
    /\ NLP_calls = NewService.NLP_calls
    /\ request = NoRequest
    /\ lib = NoLib
    /\ lib_invoked = FALSE
    /\ lib_self = None
    /\ response = NoResponse

\* A direct call of cltk_service.is_ready().
IsReady ==
    \E ctor \in CtorOutcomes :
        LET r == is_ready(cltk_service, ctor)
        IN  /\ SetService(r.self)
            /\ request' = [endpoint |-> "is_ready"]
            /\ response' = IF r.propagated THEN Uncaught(r.msg)
                           ELSE [kind |-> "bool", value |-> r.value]
            /\ lib' = NoLib
            /\ lib_invoked' = FALSE
            /\ lib_self' = None

\* GET /health
Health ==
    \E ctor \in CtorOutcomes :
        LET h == health_check(cltk_service, ctor)
        IN  /\ SetService(h.self)
            /\ request' = [endpoint |-> "/health"]
            /\ response' = h.response
            /\ lib' = NoLib
            /\ lib_invoked' = FALSE
            /\ lib_self' = None

\* POST /analyze
Analyze ==
    \E req \in AnalyzeRequests, ctor \in CtorOutcomes, l \in LibOutcomes(ServiceWords) :
        LET h == analyze_text_handler(cltk_service, req, ctor, l)
        IN  /\ SetService(h.self)
            /\ request' = req
            /\ response' = h.response
            /\ lib' = IF h.lib_invoked THEN l ELSE NoLib
            /\ lib_invoked' = h.lib_invoked
            /\ lib_self' = h.lib_self

Next == IsReady \/ Health \/ Analyze

Spec == Init /\ [][Next]_vars

(***************************************************************************)
(* CLTKService.analyze_text on an initialized service, as a function of    *)
(* the document the library returns and the two flags.                     *)
(***************************************************************************)
MethodCalls ==
    {[endpoint |-> "analyze_text", text |-> "arma virumque cano",
      include_morphology |-> im, include_dependencies |-> id] :
        im \in BOOLEAN, id \in BOOLEAN}

MapInit ==
    /\ nlp = NLPObject
    /\ initialization_attempted = TRUE
    /\ initialization_error = None
    /\ NLP_calls = 1
    /\ request \in MethodCalls
    /\ lib \in LibOutcomes(Words)
    /\ lib_invoked = FALSE
    /\ lib_self = None
    /\ response = NoResponse

AnalyzeTextCall ==
    /\ response = NoResponse
    /\ LET a == analyze_text(cltk_service, request.text, request.include_morphology,
                             request.include_dependencies, lib)
       IN  /\ response' = IF a.raised THEN Uncaught(a.msg)
                          ELSE [kind |-> "words", words |-> a.words]
           /\ lib_invoked' = a.lib_invoked
           /\ lib_self' = a.lib_self
    /\ UNCHANGED <<nlp, initialization_attempted, initialization_error, NLP_calls,
                   request, lib>>

MapNext == AnalyzeTextCall

MapSpec == MapInit /\ [][MapNext]_vars

(***************************************************************************)
(* Properties.  The expected values below restate the claims over the      *)
(* observed request, library outcome and response; they do not use the     *)
(* operators that model the code.                                          *)
(***************************************************************************)
MorphologyFields ==
    {"case", "number", "gender", "tense", "voice", "mood", "person", "degree"}

\* A word whose mapping cannot produce a WordAnalysis.
Unmappable(w) == "string" \notin DOMAIN w \/ w.string = None
MappingFails == \E k \in 1..Len(lib.doc) : Unmappable(lib.doc[k])
FirstUnmappable ==
    CHOOSE k \in 1..Len(lib.doc) :
        Unmappable(lib.doc[k]) /\ \A j \in 1..(k - 1) : ~Unmappable(lib.doc[j])
AnalysisFails == lib.raised \/ MappingFails
AnalysisMessage ==
    IF lib.raised THEN lib.msg
    ELSE IF "string" \notin DOMAIN lib.doc[FirstUnmappable] THEN AttributeErrorMsg
    ELSE ValidationErrorMsg

HasFeatures(w) ==
    "features" \in DOMAIN w /\ w.features # NoneObj /\ w.features # EmptyBundle
ExpectedMorphology(w, im) ==
    IF im /\ HasFeatures(w)
    THEN [f \in MorphologyFields |->
            IF f \in DOMAIN w.features THEN w.features[f] ELSE None]
    ELSE NoneObj
ExpectedDependency(w, id) ==
    IF id /\ "dependency_relation" \in DOMAIN w
    THEN [relation |-> w.dependency_relation,
          governor |-> IF "governor" \in DOMAIN w THEN w.governor ELSE None]
    ELSE NoneObj
ExpectedWords(doc, im, id) ==
    [k \in 1..Len(doc) |->
        [form |-> doc[k].string,
         lemma |-> IF "lemma" \in DOMAIN doc[k] THEN doc[k].lemma ELSE None,
         pos |-> IF "upos" \in DOMAIN doc[k] THEN doc[k].upos ELSE None,
         morphology |-> ExpectedMorphology(doc[k], im),
         dependency |-> ExpectedDependency(doc[k], id),
         index |-> k - 1]]

\* C1: the NLP pipeline is not constructed when the service is constructed,
\* and over any sequence of is_ready(), /health and /analyze calls it is
\* constructed exactly once, by the first call, whether or not that attempt
\* raised: never a second time.
C1_InitializedAtMostOnce ==
    /\ NLP_calls <= 1
    /\ request = NoRequest => NLP_calls = 0 /\ ~initialization_attempted /\ nlp = None
    /\ request # NoRequest => NLP_calls = 1 /\ initialization_attempted

\* A call answered after the one attempt failed.
C1_Witness ==
    /\ request.endpoint = "/analyze"
    /\ nlp = None
    /\ initialization_error = "model download failed"
    /\ NLP_calls = 1

\* C2: POST /analyze answers 503 whenever the pipeline is not ready, without
\* invoking the library's analyze and without an AnalyzeResponse; the
\* library's analyze is only ever invoked on a loaded pipeline object.
C2_NotReadyIs503 ==
    /\ (request.endpoint = "/analyze" /\ nlp = None) =>
          /\ response.kind = "HTTPException"
          /\ response.status_code = 503
          /\ ~lib_invoked
    /\ lib_invoked => lib_self = NLPObject /\ nlp = NLPObject

C2_Witness ==
    /\ request.endpoint = "/analyze"
    /\ nlp = None
    /\ response.kind = "HTTPException"

C4_FailuresRaiseHTTPException ==
    (request.endpoint = "/analyze" /\ (nlp = None \/ AnalysisFails)) =>
        response.kind = "HTTPException"

\* C5: the 503 of POST /analyze is temporary: after it, a later request to
\* the same service can find the pipeline ready and be analyzed.
C5_NotReadyIsTemporary ==
    (request.endpoint = "/analyze" /\ response.kind = "HTTPException") =>
        ENABLED (Next /\ nlp' # None)

\* What holds instead: a pipeline that failed to load is never loaded later.
C5_NotReadyIsPermanent ==
    [][(initialization_attempted /\ nlp = None) => nlp' = None]_vars

\* C6: GET /health never fails: it answers status "healthy", version "1.0.0"
\* and cltk_ready true exactly when the pipeline is loaded after the call,
\* also after the initialization raised; the initialization exception is kept
\* in the service and leaves neither is_ready() nor /health.
C6_HealthNeverFails ==
    /\ request.endpoint = "/health" =>
          /\ response.kind = "HealthResponse"
          /\ response.status = "healthy"
          /\ response.version = "1.0.0"
          /\ response.cltk_ready <=> nlp # None
    /\ request.endpoint = "is_ready" =>
          /\ response.kind = "bool"
          /\ response.value <=> nlp # None
    /\ response.kind # "Exception"
    /\ (initialization_attempted /\ nlp = None) <=> initialization_error # None
    /\ initialization_error # None => initialization_error \in InitErrors

C6_Witness ==
    /\ request.endpoint = "/health"
    /\ initialization_error = "model download failed"
    /\ response.kind = "HealthResponse"
    /\ ~response.cltk_ready

\* C7: on an initialized service analyze_text returns one WordAnalysis per
\* word of the library's document, in order: the k-th (from 0) has index k,
\* the word's string as form, and the word's lemma and upos as lemma and pos,
\* null where the word lacks the attribute.
C7_OneResultPerWord ==
    /\ (request.endpoint = "analyze_text" /\ response.kind # "none"
            /\ ~AnalysisFails) => response.kind = "words"
    /\ response.kind = "words" =>
          /\ Len(response.words) = Len(lib.doc)
          /\ {response.words[k].index : k \in 1..Len(response.words)}
                = 0..(Len(lib.doc) - 1)
          /\ \A k \in 1..Len(lib.doc) :
                /\ response.words[k].index = k - 1
                /\ response.words[k].form = lib.doc[k].string
                /\ response.words[k].lemma =
                      (IF "lemma" \in DOMAIN lib.doc[k] THEN lib.doc[k].lemma ELSE None)
                /\ response.words[k].pos =
                      (IF "upos" \in DOMAIN lib.doc[k] THEN lib.doc[k].upos ELSE None)

\* Two different words, the first without lemma and upos, the second with both.
C7_Witness ==
    /\ response.kind = "words"
    /\ Len(lib.doc) = 2
    /\ lib.doc[1] = [string |-> "virum"]
    /\ lib.doc[2] = [string |-> "arma", lemma |-> "arma", upos |-> "NOUN"]
    /\ response.words[2].index = 1

\* C8: in every result, a word's morphology is non-null exactly when
\* include_morphology is set and the word has a non-empty features value, and
\* then each of the eight fields is the feature's attribute or null; its
\* dependency is non-null exactly when include_dependencies is set and the
\* word has a dependency_relation attribute.
C8_OptionalSections ==
    response.kind = "words" =>
        \A k \in 1..Len(response.words) :
            LET w == lib.doc[k]
                out == response.words[k]
            IN  /\ out.morphology # NoneObj <=>
                      (request.include_morphology /\ HasFeatures(w))
                /\ out.morphology # NoneObj =>
                      /\ DOMAIN out.morphology = MorphologyFields
                      /\ \A f \in MorphologyFields :
                            out.morphology[f] =
                                (IF f \in DOMAIN w.features THEN w.features[f] ELSE None)
                /\ out.dependency # NoneObj <=>
                      (request.include_dependencies /\ "dependency_relation" \in DOMAIN w)
                /\ (~request.include_morphology /\ ~request.include_dependencies) =>
                      out.morphology = NoneObj /\ out.dependency = NoneObj

\* Both flags set: one word with features and a relation, one with an empty
\* feature bundle and no relation.
C8_Witness ==
    /\ response.kind = "words"
    /\ request.include_morphology /\ request.include_dependencies
    /\ Len(response.words) = 2
    /\ response.words[1].morphology # NoneObj
    /\ response.words[1].morphology.case = None
    /\ response.words[1].morphology.tense = "present"
    /\ response.words[1].dependency # NoneObj
    /\ "features" \in DOMAIN lib.doc[2] /\ lib.doc[2].features = EmptyBundle
    /\ response.words[2].morphology = NoneObj
    /\ response.words[2].dependency = NoneObj

====
